---- MODULE Spec2Model ----
(***************************************************************************)
(* Model of start-server.py: a static-file HTTP server with CORS headers.  *)
(* One process runs main(): chdir, bind a TCPServer inside a with-block,   *)
(* print the banner, open the browser, serve_forever.  The environment     *)
(* delivers requests, interrupts (Ctrl+C), OS errors, and may hold the     *)
(* port with another process.  The script may be launched again after it   *)
(* has exited.                                                             *)
(***************************************************************************)
EXTENDS Integers, Sequences, FiniteSets, TLC

VARIABLES platform, run, pc, socket, portHolder, stdout, browserCalls,
          served, lastResponse, outcome, exitStatus

vars == <<platform, run, pc, socket, portHolder, stdout, browserCalls,
          served, lastResponse, outcome, exitStatus>>

----------------------------------------------------------------------------
(* Bounds *)
MaxRuns == 2
MaxRequests == 2

(* Program constant *)
PORT == 8000

----------------------------------------------------------------------------
(* Environment *)
Platforms == {"darwin", "linux", "win32"}

\* errno of "Address already in use" as the OS reports it
EADDRINUSE(p) == CASE p = "darwin" -> 48
                   [] p = "linux"  -> 98
                   [] OTHER        -> 10048
\* errno values that are the same on every platform
Errno == [ENOENT |-> 2, EACCES |-> 13, EBADF |-> 9]

Methods == {"GET", "HEAD", "POST", "OPTIONS", "PUT"}
DocRoot == {"/index.html"}
Paths == {"/index.html", "/missing.html"}

KeyboardInterrupt == [type |-> "KeyboardInterrupt", errno |-> 0]
OSError(e) == [type |-> "OSError", errno |-> e]
OtherException == [type |-> "Exception", errno |-> 0]

\* Python class hierarchy: OSError is an Exception, KeyboardInterrupt is not
IsOSError(exc) == exc.type = "OSError"
IsException(exc) == exc.type \in {"OSError", "Exception"}

NoOutcome == [type |-> "none", errno |-> 0, at |-> "none"]
NoResponse == [method |-> "none", path |-> "none", status |-> 0, headers |-> <<>>]

----------------------------------------------------------------------------
(* CORSRequestHandler *)

end_headers_NoMethods(buf) ==
    buf \o << <<"Access-Control-Allow-Origin", "*">>,
              <<"Access-Control-Allow-Headers", "*">> >>

\* lines 16-20: three send_header calls, then the base class flushes the buffer
end_headers(buf) ==
    buf \o << <<"Access-Control-Allow-Origin", "*">>,
              <<"Access-Control-Allow-Methods", "GET, POST, OPTIONS">>,
              <<"Access-Control-Allow-Headers", "*">> >>

\* the base SimpleHTTPRequestHandler: do_GET / do_HEAD exist, any other
\* method has no do_<METHOD> and is answered with send_error(501)
StatusFor(m, p) ==
    IF m \in {"GET", "HEAD"}
    THEN IF p \in DocRoot THEN 200 ELSE 404
    ELSE 501

\* headers the base handler has buffered by the time it calls end_headers
BaseHeaders(status) ==
    IF status = 200
    THEN << <<"Server", "SimpleHTTP">>, <<"Content-type", "text/html">> >>
    ELSE << <<"Server", "SimpleHTTP">>, <<"Connection", "close">> >>

Respond(m, p) ==
    [method |-> m, path |-> p, status |-> StatusFor(m, p),
     headers |-> end_headers(BaseHeaders(StatusFor(m, p)))]

----------------------------------------------------------------------------
(* main *)

Banner == <<"starting", "url", "dir", "browser_hint", "stop_hint", "rule">>

\* line 37: f'http://localhost:{PORT}'
RootURL(port) == <<"http://localhost:", port>>

main_except_NoInterruptClause(exc) ==
    IF IsOSError(exc)
    THEN IF exc.errno = 48
         THEN [caught |-> TRUE, out |-> <<"port_in_use", "port_hint">>]
         ELSE [caught |-> TRUE, out |-> <<"os_error">>]
    ELSE IF IsException(exc)
    THEN [caught |-> TRUE, out |-> <<"unexpected">>]
    ELSE [caught |-> FALSE, out |-> <<>>]

\* lines 41-50: the except clauses of main, tried in order
main_except(exc) ==
    IF exc.type = "KeyboardInterrupt"
    THEN [caught |-> TRUE, out |-> <<"stopped">>]
    ELSE IF IsOSError(exc)
    THEN IF exc.errno = 48
         THEN [caught |-> TRUE, out |-> <<"port_in_use", "port_hint">>]
         ELSE [caught |-> TRUE, out |-> <<"os_error">>]
    ELSE IF IsException(exc)
    THEN [caught |-> TRUE, out |-> <<"unexpected">>]
    ELSE [caught |-> FALSE, out |-> <<>>]

ExitStatus_AlwaysOne(caught) == 1

\* lines 52-53: main() returning ends the script with status 0; an
\* exception leaving main ends it with a non-zero status
ExitStatus(caught) == IF caught THEN 0 ELSE 1

WithExit_Leak(sock, holder) == [socket |-> sock, portHolder |-> holder]

\* line 28: leaving the with-block closes the server socket
WithExit(sock, holder) ==
    [socket |-> IF sock = "listening" THEN "closed" ELSE sock,
     portHolder |-> IF holder = "self" THEN "free" ELSE holder]

\* an exception raised at the current position, after `printed` more lines
\* reached stdout: unwind the with-block, run the matching except clause,
\* return from main
Raise(exc, printed) ==
    LET h == main_except(exc)
        w == WithExit(socket, portHolder)
    IN /\ socket' = w.socket
       /\ portHolder' = w.portHolder
       /\ stdout' = stdout \o printed \o h.out
       /\ outcome' = [type |-> exc.type, errno |-> exc.errno, at |-> pc]
       /\ exitStatus' = ExitStatus(h.caught)
       /\ pc' = "exited"
       /\ UNCHANGED <<platform, run, served, lastResponse>>

\* lines 25-26
Chdir ==
    /\ pc = "chdir"
    /\ pc' = "bind"
    /\ UNCHANGED <<platform, run, socket, portHolder, stdout, browserCalls,
                   served, lastResponse, outcome, exitStatus>>

ChdirFails ==
    /\ pc = "chdir"
    /\ \E e \in {Errno.ENOENT, Errno.EACCES} : Raise(OSError(e), <<>>)
    /\ UNCHANGED browserCalls

Bind_SwallowError ==
    /\ pc = "bind"
    /\ \/ /\ portHolder = "free"
          /\ socket' = "listening"
          /\ portHolder' = "self"
          /\ pc' = "banner"
          /\ UNCHANGED <<platform, run, stdout, browserCalls, served,
                         lastResponse, outcome, exitStatus>>
       \/ /\ portHolder # "free"
          /\ pc' = "banner"
          /\ UNCHANGED <<platform, run, socket, portHolder, stdout,
                         browserCalls, served, lastResponse, outcome,
                         exitStatus>>
       \/ /\ Raise(OSError(Errno.EACCES), <<>>)
          /\ UNCHANGED browserCalls

\* line 28: TCPServer(("", PORT), ...) binds and listens, or raises OSError
Bind ==
    /\ pc = "bind"
    /\ \/ /\ portHolder = "free"
          /\ socket' = "listening"
          /\ portHolder' = "self"
          /\ pc' = "banner"
          /\ UNCHANGED <<platform, run, stdout, browserCalls, served,
                         lastResponse, outcome, exitStatus>>
       \/ /\ portHolder # "free"
          /\ Raise(OSError(EADDRINUSE(platform)), <<>>)
          /\ UNCHANGED browserCalls
       \/ /\ Raise(OSError(Errno.EACCES), <<>>)
          /\ UNCHANGED browserCalls

\* lines 29-34
PrintBanner ==
    /\ pc = "banner"
    /\ stdout' = stdout \o Banner
    /\ pc' = "browser"
    /\ UNCHANGED <<platform, run, socket, portHolder, browserCalls, served,
                   lastResponse, outcome, exitStatus>>

OpenBrowser_Retry(ok) ==
    /\ pc = "browser"
    /\ browserCalls' = IF ok THEN Append(browserCalls, RootURL(PORT))
                       ELSE browserCalls \o <<RootURL(PORT), RootURL(PORT)>>
    /\ pc' = "serve"
    /\ UNCHANGED <<platform, run, socket, portHolder, stdout, served,
                   lastResponse, outcome, exitStatus>>

\* line 37: webbrowser.open returns True or False; the result is dropped
OpenBrowser(ok) ==
    /\ pc = "browser"
    /\ browserCalls' = Append(browserCalls, RootURL(PORT))
    /\ pc' = "serve"
    /\ UNCHANGED <<platform, run, socket, portHolder, stdout, served,
                   lastResponse, outcome, exitStatus>>

\* line 37: webbrowser.open raises
OpenBrowserRaises ==
    /\ pc = "browser"
    /\ browserCalls' = Append(browserCalls, RootURL(PORT))
    /\ \E exc \in {OtherException, OSError(Errno.ENOENT)} : Raise(exc, <<>>)

HandleRequest_Escalate(m, p) ==
    /\ pc = "serve"
    /\ served < MaxRequests
    /\ lastResponse' = Respond(m, p)
    /\ served' = served + 1
    /\ IF StatusFor(m, p) = 404
       THEN /\ socket' = "closed"
            /\ portHolder' = "free"
            /\ stdout' = Append(stdout, "os_error")
            /\ outcome' = [type |-> "OSError", errno |-> Errno.ENOENT,
                           at |-> pc]
            /\ exitStatus' = 0
            /\ pc' = "exited"
            /\ UNCHANGED <<platform, run, browserCalls>>
       ELSE UNCHANGED <<platform, run, pc, socket, portHolder, stdout,
                        browserCalls, outcome, exitStatus>>

\* line 39: one iteration of serve_forever: accept, handle, respond
HandleRequest(m, p) ==
    /\ pc = "serve"
    /\ served < MaxRequests
    /\ lastResponse' = Respond(m, p)
    /\ served' = served + 1
    /\ UNCHANGED <<platform, run, pc, socket, portHolder, stdout,
                   browserCalls, outcome, exitStatus>>

\* line 39: serve_forever itself raises (the selector fails)
ServeError ==
    /\ pc = "serve"
    /\ Raise(OSError(Errno.EBADF), <<>>)
    /\ UNCHANGED browserCalls

\* Ctrl+C while control is inside the try block (lines 23-39)
Interrupt ==
    /\ pc \in {"chdir", "bind", "banner", "browser", "serve"}
    /\ \E k \in 0 .. (Len(Banner) - 1), called \in BOOLEAN :
         /\ (pc # "banner") => k = 0
         /\ (pc # "browser") => ~called
         /\ browserCalls' = IF called
                            THEN Append(browserCalls, RootURL(PORT))
                            ELSE browserCalls
         /\ Raise(KeyboardInterrupt, SubSeq(Banner, 1, k))

\* the script is started again after the previous process has exited
Relaunch ==
    /\ pc = "exited"
    /\ run < MaxRuns
    /\ run' = run + 1
    /\ pc' = "chdir"
    /\ socket' = "none"
    /\ stdout' = <<>>
    /\ browserCalls' = <<>>
    /\ served' = 0
    /\ lastResponse' = NoResponse
    /\ outcome' = NoOutcome
    /\ exitStatus' = -1
    /\ UNCHANGED <<platform, portHolder>>

\* another process takes or gives up the port
OtherProcessBinds ==
    /\ portHolder = "free"
    /\ portHolder' = "other"
    /\ UNCHANGED <<platform, run, pc, socket, stdout, browserCalls, served,
                   lastResponse, outcome, exitStatus>>

OtherProcessReleases ==
    /\ portHolder = "other"
    /\ portHolder' = "free"
    /\ UNCHANGED <<platform, run, pc, socket, stdout, browserCalls, served,
                   lastResponse, outcome, exitStatus>>

Init ==
    /\ platform \in Platforms
    /\ run = 1
    /\ pc = "chdir"
    /\ socket = "none"
    /\ portHolder \in {"free", "other"}
    /\ stdout = <<>>
    /\ browserCalls = <<>>
    /\ served = 0
    /\ lastResponse = NoResponse
    /\ outcome = NoOutcome
    /\ exitStatus = -1

Next ==
    \/ Chdir
    \/ ChdirFails
    \/ Bind
    \/ PrintBanner
    \/ \E ok \in BOOLEAN : OpenBrowser(ok)
    \/ OpenBrowserRaises
    \/ \E m \in Methods, p \in Paths : HandleRequest(m, p)
    \/ ServeError
    \/ Interrupt
    \/ Relaunch
    \/ OtherProcessBinds
    \/ OtherProcessReleases

Spec == Init /\ [][Next]_vars

----------------------------------------------------------------------------
TypeOK ==
    /\ platform \in Platforms
    /\ run \in 1 .. MaxRuns
    /\ pc \in {"chdir", "bind", "banner", "browser", "serve", "exited"}
    /\ socket \in {"none", "listening", "closed"}
    /\ portHolder \in {"free", "other", "self"}
    /\ served \in 0 .. MaxRequests
    /\ exitStatus \in {-1, 0, 1}

----------------------------------------------------------------------------
(* Lifecycle states of section 4.1, read off the position in main *)
Life ==
    CASE pc \in {"chdir", "bind"} -> "Starting"
      [] pc \in {"banner", "browser"} -> "Listening"
      [] pc = "serve" -> "ServingLoop"
      [] pc = "exited" /\ outcome.type = "KeyboardInterrupt" -> "Stopped"
      [] OTHER -> "Failed"

HasHeader(resp, h) == \E i \in 1 .. Len(resp.headers) : resp.headers[i] = h

Printed(msg) == \E i \in 1 .. Len(stdout) : stdout[i] = msg

LastPrinted(msg) == Len(stdout) > 0 /\ stdout[Len(stdout)] = msg

----------------------------------------------------------------------------
\* C1: every response the server has finalised carries the three CORS
\* headers, whatever the method and whatever the status (200, 404, 501).
C1_CorsOnEveryResponse ==
    lastResponse # NoResponse =>
        /\ HasHeader(lastResponse, <<"Access-Control-Allow-Origin", "*">>)
        /\ HasHeader(lastResponse,
                     <<"Access-Control-Allow-Methods", "GET, POST, OPTIONS">>)
        /\ HasHeader(lastResponse, <<"Access-Control-Allow-Headers", "*">>)

C1_Witness ==
    /\ lastResponse.method = "OPTIONS"
    /\ lastResponse.status = 501
    /\ HasHeader(lastResponse,
                 <<"Access-Control-Allow-Methods", "GET, POST, OPTIONS">>)

\* C2: a run that ends on an error raised before the serve loop prints an
\* error message and exits non-zero; exit status 0 comes only from the
\* interrupt path.
C2_StartupFailureExitsNonZero ==
    pc = "exited" =>
        /\ (outcome.at # "serve" /\ outcome.type # "KeyboardInterrupt")
              => /\ (Printed("port_in_use") \/ Printed("os_error")
                        \/ Printed("unexpected"))
                 /\ exitStatus # 0
        /\ exitStatus = 0 => outcome.type = "KeyboardInterrupt"

\* C3: when the bind fails because the port is held by another process,
\* main prints the port-in-use message and not the generic one, and the run
\* ends without a bound socket, a browser call or a served request.
C3_PortInUseClassified ==
    (/\ pc = "exited"
     /\ outcome.at = "bind"
     /\ outcome.type = "OSError"
     /\ outcome.errno = EADDRINUSE(platform))
    => /\ Printed("port_in_use")
       /\ ~Printed("os_error")
       /\ socket # "listening"
       /\ portHolder # "self"
       /\ browserCalls = <<>>
       /\ served = 0

\* C4: an interrupt in the serve loop closes the listening socket, prints
\* the shutdown notice last, exits with status 0, and no request is served
\* once the run has ended.
C4_InterruptWhileServing ==
    /\ [](( /\ pc = "exited"
            /\ outcome.type = "KeyboardInterrupt"
            /\ outcome.at = "serve")
          => /\ socket = "closed"
             /\ portHolder # "self"
             /\ LastPrinted("stopped")
             /\ exitStatus = 0)
    /\ [][(pc = "exited" /\ run' = run)
              => (served' = served /\ lastResponse' = lastResponse)]_vars

C4_Witness ==
    /\ pc = "exited"
    /\ outcome.type = "KeyboardInterrupt"
    /\ outcome.at = "serve"
    /\ served > 0
    /\ exitStatus = 0

\* C5: webbrowser.open is called at most once per run, with the root URL,
\* never before the socket is listening, exactly once by the time the serve
\* loop runs, and never in a run whose bind failed.
C5_BrowserOpenedOnceAfterBind ==
    /\ Len(browserCalls) <= 1
    /\ pc \in {"chdir", "bind", "banner", "browser"} => browserCalls = <<>>
    /\ pc = "serve" => Len(browserCalls) = 1
    /\ Len(browserCalls) >= 1 =>
          /\ browserCalls[1] = RootURL(PORT)
          /\ socket \in {"listening", "closed"}
    /\ (pc = "exited" /\ outcome.at \in {"chdir", "bind", "banner"})
          => browserCalls = <<>>

C5_Witness ==
    /\ pc = "serve"
    /\ socket = "listening"
    /\ browserCalls = <<RootURL(PORT)>>
    /\ served = 0

\* C6: no run ends at the browser-open step because that step failed:
\* after a successful bind only an interrupt keeps main from the serve loop.
C6_BrowserFailureNeverAborts ==
    ~(/\ pc = "exited"
      /\ outcome.at = "browser"
      /\ outcome.type # "KeyboardInterrupt")

\* C7 (as stated): within a run the lifecycle changes only by
\* Starting->Failed on a bind error, Starting->Listening on a successful
\* bind, Listening->ServingLoop, ServingLoop->Stopped on interrupt.
C7_OnlySpecTransitions ==
    [][(run' = run /\ Life' # Life) =>
          \/ Life = "Starting" /\ Life' = "Failed" /\ outcome'.at = "bind"
          \/ Life = "Starting" /\ Life' = "Listening" /\ socket' = "listening"
          \/ Life = "Listening" /\ Life' = "ServingLoop"
          \/ Life = "ServingLoop" /\ Life' = "Stopped"]_vars

\* C7 (amended): the transitions above, plus Starting->Failed on a chdir
\* error, Listening->Failed on an error raised before the serve loop,
\* ServingLoop->Failed on an error raised by the serve loop, and
\* Starting->Stopped and Listening->Stopped on interrupt; Failed and
\* Stopped are never left within a run.
C7_LifecycleTransitions ==
    [][(run' = run /\ Life' # Life) =>
          \/ /\ Life = "Starting" /\ Life' = "Failed"
             /\ outcome'.at \in {"chdir", "bind"}
          \/ Life = "Starting" /\ Life' = "Listening" /\ socket' = "listening"
          \/ Life = "Starting" /\ Life' = "Stopped"
          \/ Life = "Listening" /\ Life' = "ServingLoop"
          \/ /\ Life = "Listening" /\ Life' = "Failed"
             /\ outcome'.at \in {"banner", "browser"}
          \/ Life = "Listening" /\ Life' = "Stopped"
          \/ Life = "ServingLoop" /\ Life' = "Stopped"
          \/ /\ Life = "ServingLoop" /\ Life' = "Failed"
             /\ outcome'.at = "serve"]_vars

C7_Witness ==
    /\ Life = "Failed"
    /\ outcome.at = "serve"
    /\ served > 0

C10_InterruptAnywhere ==
    /\ []((pc = "exited" /\ outcome.type = "KeyboardInterrupt")
          => /\ outcome.at \in {"chdir", "bind", "banner", "browser", "serve"}
             /\ LastPrinted("stopped")
             /\ socket # "listening"
             /\ portHolder # "self"
             /\ (outcome.at \in {"banner", "browser", "serve"}
                    => socket = "closed")
             /\ exitStatus = 0)
    /\ [][(pc = "exited" /\ run' = run) => pc' = "exited"]_vars

C10_Witness ==
    /\ pc = "exited"
    /\ outcome.type = "KeyboardInterrupt"
    /\ outcome.at = "browser"
    /\ socket = "closed"
    /\ LastPrinted("stopped")

====
